---- MODULE Spec2Model ----
(***************************************************************************)
(* The build pipeline of the slide deck: the Grunt task graph and plugin   *)
(* configuration of Gruntfile.js, and the document conversion script that  *)
(* `yarn run prebuild` starts.  The working tree is a map from paths to    *)
(* contents; a task run is a queue of task names consumed front to back.   *)
(***************************************************************************)
EXTENDS Integers, Sequences, FiniteSets, TLC

(* ------------------------------ bounds --------------------------------- *)

\* how many times the author edits a source file in one behaviour
MaxEdits == 1

\* how many ports above the default one the model's port space holds
PortSpan == 1

(* ------------------------------ paths ---------------------------------- *)

\* a path: its directory as a sequence of segments, base name, extension
F(dir, name, ext) == [dir |-> dir, name |-> name, ext |-> ext]

IndexAdoc    == F(<<>>, "index", "adoc")
IndexHtml    == F(<<>>, "index", "html")
Readme       == F(<<>>, "README", "md")
GruntfileJs  == F(<<>>, "Gruntfile", "js")
RevealJs     == F(<<"js">>, "reveal", "js")
RevealScss   == F(<<"css">>, "reveal", "scss")
RevealCss    == F(<<"css">>, "reveal", "css")
RevealMinCss == F(<<"css">>, "reveal.min", "css")
Template     == F(<<"css", "theme", "template">>, "theme", "scss")

ThemeSourceDir == <<"css", "theme", "source">>
ThemeDestDir   == <<"css", "theme">>

\* the theme sources of the working tree
ThemeNames == {"black", "white"}
ThemeSrc(n) == F(ThemeSourceDir, n, "scss")
ThemeSources == {ThemeSrc(n) : n \in ThemeNames}

\* sass.themes: expand, cwd 'css/theme/source', dest 'css/theme', ext '.css'
ThemeDest(f) == F(ThemeDestDir, f.name, "css")
ThemeOutputs == {ThemeDest(f) : f \in ThemeSources}

\* files the author writes, and files the tasks generate
SourceFiles == {IndexAdoc, RevealScss, Template} \cup ThemeSources
StaticFiles == {Readme, GruntfileJs, RevealJs}
GeneratedFiles == {IndexHtml, RevealCss, RevealMinCss} \cup ThemeOutputs
Files == SourceFiles \cup StaticFiles \cup GeneratedFiles

(* ------------------------------ globs ---------------------------------- *)

\* 'dir/name.ext' with '*' allowed for the name: one directory level
Glob(dir, name, ext) == [kind |-> "file", dir |-> dir, name |-> name, ext |-> ext]
\* 'dir/**': everything below dir
Tree(dir) == [kind |-> "tree", dir |-> dir]

IsPrefix(s, t) == /\ Len(s) <= Len(t)
                  /\ \A i \in 1..Len(s) : s[i] = t[i]

Matches(p, f) ==
    IF p.kind = "tree"
    THEN IsPrefix(p.dir, f.dir)
    ELSE /\ p.dir = f.dir
         /\ p.ext = f.ext
         /\ (p.name = "*" \/ p.name = f.name)

MatchesAny(ps, f) == \E p \in ps : Matches(p, f)

(* ----------------------------- contents -------------------------------- *)

\* A content: the edit number of the source it derives from (ver), the edit
\* number of the template a theme was compiled with (dep), whether a source
\* is well formed (ok), and the chain of tools that produced it (form).
Content(ver, dep, ok, form) == [ver |-> ver, dep |-> dep, ok |-> ok, form |-> form]

Absent == Content(0, 0, FALSE, <<"absent">>)
Source(ver, ok) == Content(ver, 0, ok, <<>>)
Exists(c) == c # Absent

\* asciidoctor.convertFile with backend 'revealjs' and the fixed attributes
Convert(doc) == Content(doc.ver, 0, TRUE, <<"revealjs">>)
\* grunt-sass on css/reveal.scss
Compile(src) == Content(src.ver, 0, TRUE, <<"sass">>)
\* grunt-sass on a theme source, which imports the template
CompileTheme(src, tpl) == Content(src.ver, tpl.ver, TRUE, <<"sass">>)
\* grunt-autoprefixer, in place
Prefix(css) == [css EXCEPT !.form = Append(@, "autoprefixer")]
\* grunt-contrib-cssmin
Minify(css) == [css EXCEPT !.form = Append(@, "cssmin")]

(* --------------------------- configuration ----------------------------- *)

\* var port = grunt.option('port') || 8000
DefaultPort == 8000
Ports == DefaultPort..(DefaultPort + PortSpan)
\* the values of --port: 0 stands for an absent (or falsy) option
PortOptions == {0} \cup (Ports \ {DefaultPort})
ConfiguredPort(opt) == IF opt = 0 THEN DefaultPort ELSE opt

\* var root = grunt.option('root') || '.', wrapped into an array
Root == {<<>>}

\* faulty variant: the server insists on the configured port
UseAvailablePortOff == FALSE

\* connect.server.options.useAvailablePort
UseAvailablePort == TRUE

\* the task names and their sub-tasks, as the Gruntfile registers them
TaskGraphAsWritten ==
    "default"    :> <<"css", "js">> @@
    "js"         :> <<>> @@
    "css-themes" :> <<"sass:themes">> @@
    "css-core"   :> <<"sass:core", "autoprefixer", "cssmin">> @@
    "css"        :> <<"sass", "autoprefixer", "cssmin">> @@
    "package"    :> <<"default", "zip">> @@
    "serve"      :> <<"connect", "watch">> @@
    "prebuild"   :> <<"run:prebuild">>

\* the registrations with the sub-tasks of task t replaced by subs
Registered(graph, t, subs) == [n \in DOMAIN graph |-> IF n = t THEN subs ELSE graph[n]]

\* faulty variants of the registrations: the archive made before the build,
\* `default` converting the document, `serve` building before it serves, and
\* the core stylesheet minified before it is prefixed
TaskGraphZipFirst == Registered(TaskGraphAsWritten, "package", <<"zip", "default">>)
TaskGraphDefaultConverts ==
    Registered(TaskGraphAsWritten, "default", <<"prebuild", "css", "js">>)
TaskGraphServeBuilds ==
    Registered(TaskGraphAsWritten, "serve", <<"prebuild", "css", "connect", "watch">>)
TaskGraphMinifyFirst ==
    Registered(Registered(TaskGraphAsWritten, "css-core",
                          <<"sass:core", "cssmin", "autoprefixer">>),
               "css", <<"sass", "cssmin", "autoprefixer">>)

\* grunt.registerTask(name, [sub-tasks])
TaskGraph == TaskGraphAsWritten

\* the targets of each configured multi-task, in the order of initConfig: a
\* multi-task named without a target runs all of them
Targets ==
    "run"          :> <<"run:prebuild">> @@
    "sass"         :> <<"sass:core", "sass:themes">> @@
    "autoprefixer" :> <<"autoprefixer:core">> @@
    "cssmin"       :> <<"cssmin:compress">> @@
    "connect"      :> <<"connect:server">> @@
    "zip"          :> <<"zip:bundle">>

\* zip.bundle.src
ZipSrc == { Glob(<<>>, "index", "html"),
            Tree(<<"css">>), Tree(<<"js">>), Tree(<<"lib">>),
            Tree(<<"images">>), Tree(<<"plugin">>),
            Glob(<<>>, "*", "md") }

\* watch: the targets, their file patterns and their tasks
WatchTargets == {"asciidoc", "js", "theme", "css", "html", "markdown"}

WatchFiles(t) ==
    CASE t = "asciidoc" -> { Glob(<<>>, "index", "adoc") }
      [] t = "js"       -> { Glob(<<>>, "Gruntfile", "js"), Glob(<<"js">>, "reveal", "js") }
      [] t = "theme"    -> { Glob(<<"css", "theme", "source">>, "*", "sass"),
                             Glob(<<"css", "theme", "source">>, "*", "scss"),
                             Glob(<<"css", "theme", "template">>, "*", "sass"),
                             Glob(<<"css", "theme", "template">>, "*", "scss") }
      [] t = "css"      -> { Glob(<<"css">>, "reveal", "scss") }
      [] t = "html"     -> { Glob(r, "*", "html") : r \in Root }
      [] t = "markdown" -> { Glob(r, "*", "md") : r \in Root }

\* faulty variant: a change of the generated markup runs the converter again
WatchTasksHtmlRebuilds(t) ==
    CASE t = "asciidoc" -> <<"prebuild">>
      [] t = "js"       -> <<"js">>
      [] t = "theme"    -> <<"css-themes">>
      [] t = "css"      -> <<"css-core">>
      [] t = "html"     -> <<"prebuild">>
      [] t = "markdown" -> <<>>

\* faulty variant: a theme change rebuilds all the stylesheets
WatchTasksThemeRunsCss(t) ==
    CASE t = "asciidoc" -> <<"prebuild">>
      [] t = "js"       -> <<"js">>
      [] t = "theme"    -> <<"css">>
      [] t = "css"      -> <<"css-core">>
      [] t = "html"     -> <<>>
      [] t = "markdown" -> <<>>

WatchTasks(t) ==
    CASE t = "asciidoc" -> <<"prebuild">>
      [] t = "js"       -> <<"js">>
      [] t = "theme"    -> <<"css-themes">>
      [] t = "css"      -> <<"css-core">>
      [] t = "html"     -> <<>>
      [] t = "markdown" -> <<>>

\* the watch targets a change of one of the files sets off
Triggered(files) ==
    {t \in WatchTargets : \E f \in files : MatchesAny(WatchFiles(t), f)}

(* ------------------------------- state --------------------------------- *)

VARIABLES
    fs,          \* the working tree: path -> content
    archive,     \* reveal-js-presentation.zip: whether written, and its entries
    edits,       \* number of edits the author has made
    registry,    \* grunt's task registry: alias name -> sub-tasks
    cli,         \* the grunt process started from the command line
    child,       \* the grunt process the watcher spawned for a target
    port,        \* the port the Gruntfile computed for this invocation
    inUse,       \* ports other processes hold when the server comes to bind
    listening,   \* the port the dev server listens on, 0 when it does not
    watching,    \* the watch task holds its file subscription
    watchQueue,  \* the watcher's queue of targets
    wRun,        \* the targets of the watcher's current run, in order
    wi,          \* index in wRun of the target being run, 0 when idle
    converted,   \* the document converter has completed at least once
    compiled     \* the core stylesheet pipeline has completed at least once

vars == <<fs, archive, edits, registry, cli, child, port, inUse, listening,
          watching, watchQueue, wRun, wi, converted, compiled>>

\* a fresh checkout: the sources, nothing generated
InitTree == [f \in Files |->
               IF f \in GeneratedFiles THEN Absent ELSE Source(0, TRUE)]
NoArchive == [written |-> FALSE, entries |-> <<>>]

\* a grunt process: the task(s) it was started for, the queue of task names
\* still to run, the names run so far, the task that failed, and the tree as
\* it was at its start
NoProcess == [tasks |-> <<>>, queue |-> <<>>, status |-> "idle", log |-> <<>>,
              failed |-> "", pre |-> InitTree, preArchive |-> NoArchive]
Start(tasks, tree, arch) ==
    [tasks |-> tasks, queue |-> tasks,
     status |-> IF tasks = <<>> THEN "ok" ELSE "running",
     log |-> <<>>, failed |-> "", pre |-> tree, preArchive |-> arch]

Init ==
    /\ fs = InitTree
    /\ archive = NoArchive
    /\ edits = 0
    /\ registry = TaskGraph
    /\ cli = NoProcess
    /\ child = NoProcess
    /\ port = DefaultPort
    /\ inUse = {}
    /\ listening = 0
    /\ watching = FALSE
    /\ watchQueue = <<>>
    /\ wRun = <<>>
    /\ wi = 0
    /\ converted = FALSE
    /\ compiled = FALSE

(* --------------------------- the task runner --------------------------- *)

Range(s) == {s[i] : i \in 1..Len(s)}

\* a task that only enqueues others: an alias, or a multi-task without target
IsAlias(h) == h \in DOMAIN registry \/ h \in DOMAIN Targets
SubTasks(h) == IF h \in DOMAIN registry THEN registry[h] ELSE Targets[h]

\* the process after its head task h ended well, q being what is left to run
Advance(P, h, q) == [P EXCEPT !.queue = q,
                              !.log = Append(@, h),
                              !.status = IF q = <<>> THEN "ok" ELSE "running"]
\* the process after its head task failed: grunt drops the rest of the queue
Abort(P) == [P EXCEPT !.queue = <<>>, !.status = "failed", !.failed = Head(P.queue)]

\* running an alias puts its sub-tasks in its place in the queue
Expanded(P) == Advance(P, Head(P.queue), SubTasks(Head(P.queue)) \o Tail(P.queue))

CanExpand(P) == /\ P.status = "running"
                /\ IsAlias(Head(P.queue))

(* ----------------------------- the steps ------------------------------- *)

Outcome(ok, tree, arch, written) ==
    [ok |-> ok, fs |-> tree, archive |-> arch, written |-> written]

\* faulty variant: the converter leaves an existing index.html alone
RunPrebuildKeepsExisting(tree, arch) ==
    IF Exists(tree[IndexAdoc]) /\ tree[IndexAdoc].ok
    THEN { Outcome(TRUE,
                   IF Exists(tree[IndexHtml]) THEN tree
                   ELSE [tree EXCEPT ![IndexHtml] = Convert(tree[IndexAdoc])],
                   arch, {IndexHtml}) }
    ELSE { Outcome(FALSE, tree, arch, {}) }

\* run:prebuild: yarn run prebuild, i.e. convertFile('index.adoc', options)
RunPrebuild(tree, arch) ==
    IF Exists(tree[IndexAdoc]) /\ tree[IndexAdoc].ok
    THEN { Outcome(TRUE, [tree EXCEPT ![IndexHtml] = Convert(tree[IndexAdoc])],
                   arch, {IndexHtml}) }
    ELSE { Outcome(FALSE, tree, arch, {}) }

\* faulty variant: a failed compilation leaves an empty css/reveal.css behind
SassCoreClobbers(tree, arch) ==
    IF Exists(tree[RevealScss]) /\ tree[RevealScss].ok
    THEN { Outcome(TRUE, [tree EXCEPT ![RevealCss] = Compile(tree[RevealScss])],
                   arch, {RevealCss}) }
    ELSE { Outcome(FALSE, [tree EXCEPT ![RevealCss] = Content(0, 0, TRUE, <<"empty">>)],
                   arch, {RevealCss}) }

\* sass:core: css/reveal.scss -> css/reveal.css
SassCore(tree, arch) ==
    IF Exists(tree[RevealScss]) /\ tree[RevealScss].ok
    THEN { Outcome(TRUE, [tree EXCEPT ![RevealCss] = Compile(tree[RevealScss])],
                   arch, {RevealCss}) }
    ELSE { Outcome(FALSE, tree, arch, {}) }

\* the tree with the theme sources W compiled to their destinations
WithThemes(tree, W) ==
    [g \in Files |->
       IF \E f \in W : ThemeDest(f) = g
       THEN CompileTheme(tree[CHOOSE f \in W : ThemeDest(f) = g], tree[Template])
       ELSE tree[g]]

\* sass:themes: every source of css/theme/source, each to css/theme/<name>.css.
\* The sources of the target are compiled independently of each other: when
\* one of them fails, any of the others may already have been written.
SassThemes(tree, arch) ==
    LET present == {f \in ThemeSources : Exists(tree[f])}
        good    == {f \in present : tree[f].ok /\ tree[Template].ok}
    IN  IF good = present
        THEN { Outcome(TRUE, WithThemes(tree, present), arch,
                       {ThemeDest(f) : f \in present}) }
        ELSE { Outcome(FALSE, WithThemes(tree, W), arch, {ThemeDest(f) : f \in W})
                 : W \in SUBSET good }

\* autoprefixer:core: css/reveal.css, rewritten in place
Autoprefixer(tree, arch) ==
    IF Exists(tree[RevealCss])
    THEN { Outcome(TRUE, [tree EXCEPT ![RevealCss] = Prefix(@)], arch, {RevealCss}) }
    ELSE { Outcome(TRUE, tree, arch, {}) }

\* cssmin:compress: css/reveal.css -> css/reveal.min.css
Cssmin(tree, arch) ==
    IF Exists(tree[RevealCss])
    THEN { Outcome(TRUE, [tree EXCEPT ![RevealMinCss] = Minify(tree[RevealCss])],
                   arch, {RevealMinCss}) }
    ELSE { Outcome(TRUE, tree, arch, {}) }

\* zip:bundle: the files the src patterns match, into the archive.  A pattern
\* that matches no file contributes nothing.
ZipBundle(tree, arch) ==
    LET matched == {f \in Files : Exists(tree[f]) /\ MatchesAny(ZipSrc, f)}
    IN  { Outcome(TRUE, tree,
                  [written |-> TRUE, entries |-> [f \in matched |-> tree[f]]], {}) }

FileSteps == {"run:prebuild", "sass:core", "sass:themes", "autoprefixer:core",
              "cssmin:compress", "zip:bundle"}

StepOutcomes(h, tree, arch) ==
    CASE h = "run:prebuild"      -> RunPrebuild(tree, arch)
      [] h = "sass:core"         -> SassCore(tree, arch)
      [] h = "sass:themes"       -> SassThemes(tree, arch)
      [] h = "autoprefixer:core" -> Autoprefixer(tree, arch)
      [] h = "cssmin:compress"   -> Cssmin(tree, arch)
      [] h = "zip:bundle"        -> ZipBundle(tree, arch)

CanRun(P) == /\ P.status = "running"
             /\ Head(P.queue) \in FileSteps

\* the process after the outcome o of its head task
After(P, o) == IF o.ok THEN Advance(P, Head(P.queue), Tail(P.queue)) ELSE Abort(P)

Completes(P, o, step) == o.ok /\ Head(P.queue) = step

(* ----------------------------- the server ------------------------------ *)

Min(S) == CHOOSE x \in S : \A y \in S : x <= y

\* connect:server: the port the server binds, 0 when it cannot bind one.
\* With useAvailablePort the ports from the configured one upwards are tried.
Bind(p, used) ==
    LET free == {q \in Ports : q >= p /\ q \notin used}
    IN  IF p \notin used THEN p
        ELSE IF UseAvailablePort /\ free # {} THEN Min(free)
        ELSE 0

(* ----------------------------- the watcher ----------------------------- *)

\* the order of the targets in the watch configuration
TargetOrder == <<"asciidoc", "js", "theme", "css", "html", "markdown">>

\* the queue with the targets ts added, those already queued left alone
Enqueue(q, ts) ==
    q \o SelectSeq(TargetOrder, LAMBDA t : t \in ts /\ t \notin Range(q))

\* A change seen while a run is in progress does not interrupt it (no
\* `interrupt` option is set).  Whether its target is remembered for a later
\* run is not fixed by the configuration: both outcomes are possible.
WhileBusy(q, files) == {q, Enqueue(q, Triggered(files))}

\* the watcher's reaction to a change of `files`, the tree then being `tree`
React(files, tree) ==
    IF ~watching \/ Triggered(files) = {}
    THEN UNCHANGED <<watchQueue, wRun, wi, child>>
    ELSE IF wi = 0
    THEN LET q == Enqueue(watchQueue, Triggered(files))
         IN  /\ watchQueue' = q
             /\ wRun' = q
             /\ wi' = 1
             /\ child' = Start(WatchTasks(q[1]), tree, archive)
    ELSE /\ watchQueue' \in WhileBusy(watchQueue, files)
         /\ UNCHANGED <<wRun, wi, child>>

(* ------------------------------ actions -------------------------------- *)

CliTasks == DOMAIN TaskGraph

\* grunt <t> [--port=opt], other processes holding the ports `used`
Invoke(t, opt, used) ==
    /\ cli.status = "idle"
    /\ t = "serve" \/ (opt = 0 /\ used = {})
    /\ cli' = Start(<<t>>, fs, archive)
    /\ port' = ConfiguredPort(opt)
    /\ inUse' = used
    /\ UNCHANGED <<fs, archive, edits, registry, child, listening, watching,
                   watchQueue, wRun, wi, converted, compiled>>

CliExpand ==
    /\ CanExpand(cli)
    /\ cli' = Expanded(cli)
    /\ UNCHANGED <<fs, archive, edits, registry, child, port, inUse, listening,
                   watching, watchQueue, wRun, wi, converted, compiled>>

CliRun ==
    /\ CanRun(cli)
    /\ \E o \in StepOutcomes(Head(cli.queue), fs, archive) :
         /\ fs' = o.fs
         /\ archive' = o.archive
         /\ cli' = After(cli, o)
         /\ converted' = (converted \/ Completes(cli, o, "run:prebuild"))
         /\ compiled' = (compiled \/ Completes(cli, o, "cssmin:compress"))
    /\ UNCHANGED <<edits, registry, child, port, inUse, listening, watching,
                   watchQueue, wRun, wi>>

Connect ==
    /\ cli.status = "running"
    /\ Head(cli.queue) = "connect:server"
    /\ listening' = Bind(port, inUse)
    /\ cli' = IF Bind(port, inUse) # 0
              THEN Advance(cli, "connect:server", Tail(cli.queue))
              ELSE Abort(cli)
    /\ inUse' = {}
    /\ UNCHANGED <<fs, archive, edits, registry, child, port, watching,
                   watchQueue, wRun, wi, converted, compiled>>

\* the watch task never ends: the process stays in it until it is stopped
Watch ==
    /\ cli.status = "running"
    /\ Head(cli.queue) = "watch"
    /\ ~watching
    /\ watching' = TRUE
    /\ UNCHANGED <<fs, archive, edits, registry, cli, child, port, inUse,
                   listening, watchQueue, wRun, wi, converted, compiled>>

ChildExpand ==
    /\ wi # 0
    /\ CanExpand(child)
    /\ child' = Expanded(child)
    /\ UNCHANGED <<fs, archive, edits, registry, cli, port, inUse, listening,
                   watching, watchQueue, wRun, wi, converted, compiled>>

ChildRun ==
    /\ wi # 0
    /\ CanRun(child)
    /\ \E o \in StepOutcomes(Head(child.queue), fs, archive) :
         /\ fs' = o.fs
         /\ archive' = o.archive
         /\ child' = After(child, o)
         /\ watchQueue' \in WhileBusy(watchQueue, o.written)
         /\ converted' = (converted \/ Completes(child, o, "run:prebuild"))
         /\ compiled' = (compiled \/ Completes(child, o, "cssmin:compress"))
    /\ UNCHANGED <<edits, registry, cli, port, inUse, listening, watching,
                   wRun, wi>>

\* the spawned process has ended: on to the run's next target, or back to idle
WatchNext ==
    /\ wi # 0
    /\ child.status \in {"ok", "failed"}
    /\ IF wi < Len(wRun)
       THEN /\ wi' = wi + 1
            /\ child' = Start(WatchTasks(wRun[wi + 1]), fs, archive)
            /\ UNCHANGED <<watchQueue, wRun>>
       ELSE /\ wi' = 0
            /\ wRun' = <<>>
            /\ watchQueue' = SelectSeq(watchQueue, LAMBDA t : t \notin Range(wRun))
            /\ child' = NoProcess
    /\ UNCHANGED <<fs, archive, edits, registry, cli, port, inUse, listening,
                   watching, converted, compiled>>

\* the author saves a file; a stylesheet or the document may be left broken.
\* A process that has finished exits at once, before any further edit.
Editable == SourceFiles \cup {RevealJs, Readme}

Edit(f, ok) ==
    /\ edits < MaxEdits
    /\ cli.status \notin {"ok", "failed"}
    /\ child.status \notin {"ok", "failed"}
    /\ ok \/ f \in SourceFiles
    /\ edits' = edits + 1
    /\ fs' = [fs EXCEPT ![f] = Source(edits + 1, ok)]
    /\ React({f}, fs')
    /\ UNCHANGED <<archive, registry, cli, port, inUse, listening, watching,
                   converted, compiled>>

\* the process ends once its queue is done or a task has failed
Exit ==
    /\ cli.status \in {"ok", "failed"}
    /\ cli' = NoProcess
    /\ port' = DefaultPort
    /\ inUse' = {}
    /\ listening' = 0
    /\ UNCHANGED <<fs, archive, edits, registry, child, watching, watchQueue,
                   wRun, wi, converted, compiled>>

\* the author stops the serve session: the server and the watcher go with it
Terminate ==
    /\ watching
    /\ cli' = NoProcess
    /\ child' = NoProcess
    /\ port' = DefaultPort
    /\ inUse' = {}
    /\ listening' = 0
    /\ watching' = FALSE
    /\ watchQueue' = <<>>
    /\ wRun' = <<>>
    /\ wi' = 0
    /\ UNCHANGED <<fs, archive, edits, registry, converted, compiled>>

Next ==
    \/ \E t \in CliTasks, opt \in PortOptions, used \in SUBSET Ports :
         Invoke(t, opt, used)
    \/ CliExpand
    \/ CliRun
    \/ Connect
    \/ Watch
    \/ ChildExpand
    \/ ChildRun
    \/ WatchNext
    \/ \E f \in Editable, ok \in BOOLEAN : Edit(f, ok)
    \/ Exit
    \/ Terminate

Spec == Init /\ [][Next]_vars

\* the serve sessions alone: the only command is `grunt serve`, and every
\* build is one the watcher started
ServeNext ==
    \/ \E opt \in PortOptions, used \in SUBSET Ports : Invoke("serve", opt, used)
    \/ CliExpand
    \/ Connect
    \/ Watch
    \/ ChildExpand
    \/ ChildRun
    \/ WatchNext
    \/ \E f \in Editable, ok \in BOOLEAN : Edit(f, ok)
    \/ Exit
    \/ Terminate

\* a spawned grunt process runs its queue to the end, and the watcher then
\* goes on to the next target of the run or back to idle
ServeSpec ==
    /\ Init
    /\ [][ServeNext]_vars
    /\ WF_vars(ChildExpand)
    /\ WF_vars(ChildRun)
    /\ WF_vars(WatchNext)

FairSpec ==
    /\ Spec
    /\ WF_vars(ChildExpand)
    /\ WF_vars(ChildRun)
    /\ WF_vars(WatchNext)

(* ------------------------- notions for the claims ---------------------- *)

\* the tasks of a log that are steps, aliases left out
Steps(log) == SelectSeq(log, LAMBDA t : t \in FileSteps)

\* the place of task t in a log, 0 when it is not there
Pos(log, t) == IF t \in Range(log)
               THEN Min({i \in 1..Len(log) : log[i] = t})
               ELSE 0

Count(log, t) == Cardinality({i \in 1..Len(log) : log[i] = t})

\* the steps of `default`, in order
BuildSteps == <<"sass:core", "sass:themes", "autoprefixer:core", "cssmin:compress">>

Processes == {cli, child}

\* the process was started on a tree without any generated file
FreshStart(P) == \A g \in GeneratedFiles : ~Exists(P.pre[g])

(* ------------------------------- C1 ------------------------------------ *)

\* C1: in a run of `package` the archive step zip:bundle starts only when
\* the steps of `default` (sass:core, sass:themes, autoprefixer:core,
\* cssmin:compress, and the alias js) have all run without failure, it runs
\* once, a run that failed has not written the archive, and the task
\* registry is the one the Gruntfile registered.
PackageZipLast ==
    /\ registry = TaskGraph
    /\ cli.tasks = <<"package">> =>
         /\ Count(cli.log, "zip:bundle") <= 1
         /\ (cli.status = "running" /\ Head(cli.queue) = "zip:bundle") =>
              /\ Steps(cli.log) = BuildSteps
              /\ {"default", "css", "js"} \subseteq Range(cli.log)
         /\ "zip:bundle" \in Range(cli.log) =>
              /\ Steps(cli.log) = BuildSteps \o <<"zip:bundle">>
              /\ Pos(cli.log, "js") < Pos(cli.log, "zip:bundle")
              /\ cli.status = "ok"
         /\ cli.status = "ok" => Count(cli.log, "zip:bundle") = 1
         /\ cli.status = "failed" => archive = cli.preArchive

PackageZipLastWitness ==
    /\ cli.tasks = <<"package">>
    /\ cli.status = "ok"
    /\ archive.written
    /\ Steps(cli.log) = BuildSteps \o <<"zip:bundle">>

(* ------------------------------- C2 ------------------------------------ *)

\* C2 as stated: a successful run of `default` from a tree without generated
\* files leaves both index.html and css/reveal.css in the tree.
DefaultBuildsMarkupAndCss ==
    (cli.tasks = <<"default">> /\ cli.status = "ok" /\ FreshStart(cli)) =>
        /\ Exists(fs[IndexHtml])
        /\ Exists(fs[RevealCss])

\* C2 amended: a successful run of `default` from a tree without generated
\* files leaves the compiled and prefixed css/reveal.css, css/reveal.min.css
\* and the theme stylesheets, and leaves index.html as it was (absent); the
\* markup is written by `prebuild`, whose successful run leaves index.html
\* holding the conversion of index.adoc.
DefaultBuildsCssOnly ==
    /\ (cli.tasks = <<"default">> /\ cli.status = "ok" /\ FreshStart(cli)) =>
         /\ Exists(fs[RevealCss])
         /\ fs[RevealCss].form = <<"sass", "autoprefixer">>
         /\ Exists(fs[RevealMinCss])
         /\ \A g \in ThemeOutputs : Exists(fs[g])
         /\ fs[IndexHtml] = cli.pre[IndexHtml]
         /\ ~Exists(fs[IndexHtml])
    /\ (cli.tasks = <<"prebuild">> /\ cli.status = "ok") =>
         /\ Exists(fs[IndexHtml])
         /\ fs[IndexHtml] = Convert(fs[IndexAdoc])

DefaultBuildsCssOnlyWitness ==
    /\ cli.tasks = <<"default">>
    /\ cli.status = "ok"
    /\ FreshStart(cli)
    /\ Exists(fs[RevealCss])

(* ------------------------------- C3 ------------------------------------ *)

\* C3: a run of `package` started while index.html is absent ends in
\* failure, and the archive is not written.
PackageFailsWithoutMarkup ==
    (/\ cli.tasks = <<"package">>
     /\ ~Exists(cli.pre[IndexHtml])
     /\ cli.status \in {"ok", "failed"}) =>
        /\ cli.status = "failed"
        /\ archive = cli.preArchive

(* ------------------------------- C4 ------------------------------------ *)

\* C4 as stated: whenever the dev server is listening, the document
\* converter and the stylesheet pipeline have each completed before.
ServerAfterBuild ==
    listening # 0 => (converted /\ compiled)

\* C4 amended: `serve` runs connect and watch and nothing else, so the
\* server may be listening before the converter or the stylesheet pipeline
\* has ever completed; in a serve session they run only as tasks the watcher
\* started, and the watcher runs only while the server is listening.
ServeOnlyConnectsAndWatches ==
    /\ cli.tasks = <<"serve">> =>
         Range(cli.log) \subseteq {"serve", "connect", "connect:server"}
    /\ listening # 0 => cli.tasks = <<"serve">>
    /\ watching => listening # 0
    /\ wi # 0 => watching
    /\ child.status # "idle" => (wi # 0 /\ listening # 0)

ServeOnlyConnectsAndWatchesWitness ==
    /\ listening # 0
    /\ watching
    /\ ~compiled
    /\ child.status = "ok"
    /\ "run:prebuild" \in Range(child.log)

(* ------------------------------- C5 ------------------------------------ *)

\* the step changes file f
Changed(f) == fs'[f] # fs[f]

\* the files only the theme patterns of the watcher match
ThemeOnlyFiles == {f \in Files : Triggered({f}) = {"theme"}}

\* an idle watcher with nothing queued sees a change of a theme file, and
\* starts a run of the theme target alone, with the task css-themes
ThemeChangeRunsThemes ==
    (/\ watching
     /\ wi = 0
     /\ watchQueue = <<>>
     /\ \E f \in ThemeOnlyFiles : Changed(f)) =>
        /\ wRun' = <<"theme">>
        /\ wi' = 1
        /\ child'.tasks = <<"css-themes">>

\* while the theme target runs, its process runs sass:themes alone and the
\* core stylesheets, index.html and the archive are as they were at its start
ThemeRunFrame ==
    (wi # 0 /\ wRun[wi] = "theme") =>
        /\ child.tasks = <<"css-themes">>
        /\ Range(child.log) \cup Range(child.queue) \subseteq {"css-themes", "sass:themes"}
        /\ fs[RevealCss] = child.pre[RevealCss]
        /\ fs[RevealMinCss] = child.pre[RevealMinCss]
        /\ fs[IndexHtml] = child.pre[IndexHtml]
        /\ archive = child.preArchive

\* C5: a change that matches only the theme patterns makes the watcher run
\* css-themes (sass:themes) and nothing else, and that run leaves
\* css/reveal.css, css/reveal.min.css, index.html and the archive unchanged.
ThemeChangeOnlyThemes ==
    []ThemeRunFrame /\ [][ThemeChangeRunsThemes]_vars

ThemeChangeOnlyThemesWitness ==
    /\ wi = 1
    /\ wRun = <<"theme">>
    /\ child.status = "ok"
    /\ child.log = <<"css-themes", "sass:themes">>
    /\ Exists(fs[RevealCss])
    /\ Exists(fs[RevealMinCss])
    /\ \E g \in ThemeOutputs : fs[g] # child.pre[g]

(* ------------------------------- C7 ------------------------------------ *)

CompiledOutputs == {RevealCss, RevealMinCss} \cup ThemeOutputs

\* the process ended because a stylesheet compilation failed
SassFailed(P) == P.status = "failed" /\ P.failed \in {"sass:core", "sass:themes"}

\* the theme sources sass:themes cannot compile
BrokenThemes == {f \in ThemeSources : ~(fs[f].ok /\ fs[Template].ok)}

\* the tasks after compilation have not run
RestNotRun(P) ==
    /\ P.queue = <<>>
    /\ Range(P.log) \cap {"autoprefixer:core", "cssmin:compress", "zip:bundle"} = {}
    /\ archive = P.preArchive

\* C7 as stated: when a compilation fails, every compiled file is as it was
\* before, the later tasks are not run and the invocation has failed.
SassFailureTouchesNothing ==
    \A P \in Processes :
        SassFailed(P) =>
            /\ \A g \in CompiledOutputs : fs[g] = P.pre[g]
            /\ RestNotRun(P)

\* C7 amended: when a compilation fails, the output of the source that failed
\* is as it was before, the later tasks (autoprefixer, cssmin, zip) are not
\* run, css/reveal.min.css, index.html and the archive are as they were, and
\* the invocation has failed; a compiled file other than these is as it was
\* before unless the same invocation had already compiled it: css/reveal.css
\* by sass:core when sass:themes fails afterwards, and the other themes of the
\* sass:themes target, which may have been written before the failure.
SassFailureKeepsFailedOutput ==
    \A P \in Processes :
        SassFailed(P) =>
            /\ RestNotRun(P)
            /\ fs[RevealMinCss] = P.pre[RevealMinCss]
            /\ fs[IndexHtml] = P.pre[IndexHtml]
            /\ P.failed = "sass:core" =>
                 \A g \in CompiledOutputs : fs[g] = P.pre[g]
            /\ P.failed = "sass:themes" =>
                 /\ \A f \in BrokenThemes : fs[ThemeDest(f)] = P.pre[ThemeDest(f)]
                 /\ \A f \in ThemeSources \ BrokenThemes :
                      fs[ThemeDest(f)] \in
                          {P.pre[ThemeDest(f)], CompileTheme(fs[f], fs[Template])}
                 /\ \/ fs[RevealCss] = P.pre[RevealCss]
                    \/ /\ "sass:core" \in Range(P.log)
                       /\ fs[RevealCss].form = <<"sass">>

SassFailureKeepsFailedOutputWitness ==
    /\ cli.tasks = <<"package">>
    /\ SassFailed(cli)
    /\ cli.failed = "sass:themes"
    /\ fs[RevealCss] # cli.pre[RevealCss]
    /\ Exists(cli.pre[RevealCss])
    /\ \E f \in ThemeSources \ BrokenThemes : fs[ThemeDest(f)] # cli.pre[ThemeDest(f)]

(* ------------------------------- C8 ------------------------------------ *)

\* the step is the server's attempt to bind
BindStep == /\ cli.status = "running"
            /\ Head(cli.queue) = "connect:server"
            /\ cli' # cli

FreeFrom(p) == {q \in Ports : q >= p /\ q \notin inUse}

Prebuilt(P) == P.status = "ok" /\ "run:prebuild" \in Range(P.log)

\* the process started on the output of an earlier conversion of the
\* document it then converted again, unchanged
SecondRun(P) == /\ Exists(P.pre[IndexHtml])
                /\ P.pre[IndexAdoc] = fs[IndexAdoc]
                /\ P.pre[IndexHtml] = Convert(P.pre[IndexAdoc])

CoreBuilt(P) == /\ P.tasks \in {<<"css-core">>, <<"css">>}
                /\ P.status = "ok"
                /\ fs[RevealScss] = P.pre[RevealScss]

\* C10: css-core and css run sass:core, then autoprefixer:core, then
\* cssmin:compress, so that after a successful run css/reveal.min.css is the
\* minified, prefixed compilation of css/reveal.scss and css/reveal.css the
\* prefixed compilation; a theme stylesheet is only ever a compilation, never
\* prefixed nor minified.
CoreCompilePrefixMinify ==
    /\ \A P \in Processes :
         /\ P.tasks \in {<<"css-core">>, <<"css">>} =>
              /\ "autoprefixer:core" \in Range(P.log) =>
                   /\ "sass:core" \in Range(P.log)
                   /\ Pos(P.log, "sass:core") < Pos(P.log, "autoprefixer:core")
              /\ "cssmin:compress" \in Range(P.log) =>
                   /\ "autoprefixer:core" \in Range(P.log)
                   /\ Pos(P.log, "autoprefixer:core") < Pos(P.log, "cssmin:compress")
              /\ P.status = "ok" =>
                   {"sass:core", "autoprefixer:core", "cssmin:compress"} \subseteq Range(P.log)
         /\ CoreBuilt(P) =>
              /\ fs[RevealCss] = Prefix(Compile(fs[RevealScss]))
              /\ fs[RevealMinCss] = Minify(Prefix(Compile(fs[RevealScss])))
    /\ \A g \in ThemeOutputs : Exists(fs[g]) => fs[g].form = <<"sass">>

CoreCompilePrefixMinifyWitness ==
    /\ CoreBuilt(child)
    /\ child.tasks = <<"css-core">>
    /\ fs[RevealScss].ver > 0
    /\ fs[RevealMinCss] = Minify(Prefix(Compile(fs[RevealScss])))

(* ------------------------------- C11 ----------------------------------- *)

\* the targets among ts that have a task
Tasked(ts) == {t \in ts : WatchTasks(t) # <<>>}

\* the targets with a task that the step adds to the watcher's queue
NewlyQueued == Tasked(Range(watchQueue')) \ Tasked(Range(watchQueue))

\* the step is a write of the process the watcher spawned
ChildWrites == /\ wi # 0
               /\ edits' = edits
               /\ \E f \in Files : Changed(f)

\* what a watch-triggered task writes sets off no target that has a task;
\* a target with a task enters the queue, and a run starts, only by an edit
\* of the author, and one edit queues at most one such target
OnlyEditsTrigger ==
    /\ ChildWrites =>
         /\ \A f \in Files : Changed(f) => Tasked(Triggered({f})) = {}
         /\ \A f \in Files : Changed(f) => f \in GeneratedFiles
    /\ NewlyQueued # {} =>
         /\ edits' = edits + 1
         /\ Cardinality(NewlyQueued) <= 1
    /\ (wi = 0 /\ wi' # 0) => edits' = edits + 1
    /\ (wi # 0 /\ wi' # 0) => wRun' = wRun

\* C11: no file a watch-triggered task writes (index.html, css/theme/*.css,
\* css/reveal.css, css/reveal.min.css) matches a watch rule that has a task;
\* with the default root one edit of a source file queues at most one task
\* run, the tasks' own writes queue and start none, and every run of the
\* watcher comes back to idle: there is no rebuild loop.
NoRebuildLoop ==
    /\ [][OnlyEditsTrigger]_vars
    /\ (wi # 0) ~> (wi = 0)

\* idle again after a run in which the converter wrote index.html, the
\* change of which the watcher saw and queued for its target without task
NoRebuildLoopWitness ==
    /\ watching
    /\ wi = 0
    /\ child.status = "idle"
    /\ "html" \in Range(watchQueue)
    /\ Tasked(Range(watchQueue)) = {}
    /\ fs[IndexHtml] = Convert(fs[IndexAdoc])
    /\ fs[IndexAdoc].ver > 0

====
